---- MODULE Spec2Model ----
(***************************************************************************)
(* Model of the Data Quality AI Suite (src/App.tsx): the App component's   *)
(* React state, its event handlers, and the one asynchronous call to the   *)
(* generation boundary.                                                    *)
(*                                                                         *)
(* Text is modelled as a sequence of fragments: every literal piece of a   *)
(* template string is one fragment and every interpolated value is one     *)
(* fragment, so concatenation is \o and "contains" is a contiguous         *)
(* sub-sequence.                                                           *)
(***************************************************************************)
EXTENDS Naturals, Sequences, FiniteSets

VARIABLES
    page,             \* useState 'config' | 'results'
    application,      \* the four selections, "" = unselected
    operation,
    domain,
    department,
    generatedPrompt,  \* text (sequence of fragments), <<>> = ''
    formError,        \* NULL or the validation message
    apiError,         \* NULL or the fetch error message
    isLoading,
    rules,            \* whatever setRules last stored
    inflight,         \* generateContent promises not yet settled, in issue order
    lastAction,       \* history: the handler that ran last
    lastOutcome,      \* history: how the last fetch ended
    resultFrom        \* history: which Reviewing session produced rules/apiError

vars == <<page, application, operation, domain, department, generatedPrompt,
          formError, apiError, isLoading, rules, inflight,
          lastAction, lastOutcome, resultFrom>>

selection == <<application, operation, domain, department>>

NULL == "null"

(***************************************************************************)
(* Static option lists (imported from './constants').                      *)
(***************************************************************************)
APPLICATIONS == {"CRM", "Billing"}

OPERATIONS == {"Business_Rules", "Technical_Rules", "Estimations", "Schema",
               "Data_Profiling"}

DOMAINS == {"Customer", "Finance"}

DEPARTMENTS == {"Sales"}

(***************************************************************************)
(* Text helpers.                                                           *)
(***************************************************************************)
Contains(text, part) ==
    \E i \in 1..(Len(text) + 1) :
        /\ i + Len(part) - 1 <= Len(text)
        /\ SubSeq(text, i, i + Len(part) - 1) = part

FormErrorMessage == "Please select a value for all dropdowns to create a prompt."

ApiErrorMessage ==
    "Failed to generate rules. The model may have returned an unexpected format. Please try refining your prompt."

\* const isFormIncomplete = !application || !operation || !domain || !department
isFormIncomplete ==
    application = "" \/ operation = "" \/ domain = "" \/ department = ""

\* commonContext with the department interpolated where the application belongs
commonContext_WrongValue(dom, dep, app) ==
    << "for the critical data elements like First Name, LastName, Middle Name, and CustomerID for the ",
       dom, " domain in the ", dep,
       " department, within the context of the ", dep, " application." >>

commonContext(dom, dep, app) ==
    << "for the critical data elements like First Name, LastName, Middle Name, and CustomerID for the ",
       dom, " domain in the ", dep,
       " department, within the context of the ", app, " application." >>

datasetContext ==
    << "Additionally, include the context of how these elements relate to a provided dataset." >>

\* the switch (operation) of handleCreatePrompt
ComposePrompt(app, op, dom, dep) ==
    CASE op = "Business_Rules" ->
            <<"I want to create Business data quality rules ">>
            \o commonContext(dom, dep, app) \o <<" ">> \o datasetContext
      [] op = "Technical_Rules" ->
            <<"I want to create technical data quality rules (e.g., SQL queries, Python scripts) ">>
            \o commonContext(dom, dep, app) \o <<" ">> \o datasetContext
      [] op = "Estimations" ->
            <<"I want to get estimations (e.g., effort in hours, complexity) for implementing data quality rules ">>
            \o commonContext(dom, dep, app)
      [] op = "Schema" ->
            <<"I want to generate a data schema definition (e.g., JSON Schema, SQL DDL) ">>
            \o commonContext(dom, dep, app)
      [] OTHER ->
            <<"Generate data quality information regarding ", op, " ">>
            \o commonContext(dom, dep, app) \o <<" ">> \o datasetContext

\* contents of the generateContent request
RequestContents(prompt) ==
    <<"Based on the following context: \"">> \o prompt
    \o <<"\", generate a list of data quality rules.">>

(***************************************************************************)
(* The generation boundary: what a pending call can settle with.           *)
(***************************************************************************)
TextEmptyList == "[]"

TextOneRule ==
    "[{\"ruleName\":\"R1\",\"description\":\"D1\",\"ruleType\":\"Business\"}]"

TextTwoRules ==
    "[{\"ruleName\":\"R1\",\"description\":\"D1\",\"ruleType\":\"Business\"},{\"ruleName\":\"R2\",\"description\":\"D2\",\"ruleType\":\"Technical\",\"codeSnippet\":\"SELECT 1\"}]"

TextTwoRulesSwapped ==
    "[{\"ruleName\":\"R2\",\"description\":\"D2\",\"ruleType\":\"Technical\",\"codeSnippet\":\"SELECT 1\"},{\"ruleName\":\"R1\",\"description\":\"D1\",\"ruleType\":\"Business\"}]"

TextMalformed == "[{\"ruleName\":\"R1\","

TextSchemaViolation == "[{\"ruleName\":\"R1\",\"ruleType\":\"Security\"}]"

ResponseTexts ==
    {TextEmptyList, TextOneRule, TextTwoRules, TextTwoRulesSwapped,
     TextMalformed, TextSchemaViolation}

RuleR1 == [ruleName |-> "R1", description |-> "D1", ruleType |-> "Business"]

RuleR2 == [ruleName |-> "R2", description |-> "D2", ruleType |-> "Technical",
           codeSnippet |-> "SELECT 1"]

Parsed(value) == [threw |-> FALSE, value |-> value]

SyntaxError == [threw |-> TRUE, value |-> <<>>]

\* JSON.parse on the response texts above: the parsed value, or a SyntaxError thrown
JSONParse(text) ==
    CASE text = TextEmptyList       -> Parsed(<<>>)
      [] text = TextOneRule         -> Parsed(<<RuleR1>>)
      [] text = TextTwoRules        -> Parsed(<<RuleR1, RuleR2>>)
      [] text = TextTwoRulesSwapped -> Parsed(<<RuleR2, RuleR1>>)
      [] text = TextSchemaViolation ->
            Parsed(<<[ruleName |-> "R1", ruleType |-> "Security"]>>)
      [] OTHER                      -> SyntaxError

\* the responseSchema declared in the request
ConformsToSchema(value) ==
    /\ \A i \in 1..Len(value) :
          /\ {"ruleName", "description", "ruleType"} \subseteq DOMAIN value[i]
          /\ DOMAIN value[i] \subseteq
                {"ruleName", "description", "ruleType", "codeSnippet"}
          /\ value[i].ruleType \in {"Business", "Technical"}

\* a settled promise: rejected, or resolved with a response text
Settlements ==
    {[kind |-> "rejected", text |-> ""]}
    \cup {[kind |-> "resolved", text |-> t] : t \in ResponseTexts}

(***************************************************************************)
(* Initial state: the useState defaults.                                   *)
(***************************************************************************)
Init ==
    /\ page = "config"
    /\ application = ""
    /\ operation = ""
    /\ domain = ""
    /\ department = ""
    /\ generatedPrompt = <<>>
    /\ formError = NULL
    /\ apiError = NULL
    /\ isLoading = FALSE
    /\ rules = <<>>
    /\ inflight = <<>>
    /\ lastAction = "init"
    /\ lastOutcome = [kind |-> "none", text |-> ""]
    /\ resultFrom = "none"

(***************************************************************************)
(* Configuration page: the four dropdowns.  The placeholder option is      *)
(* disabled, so a change event always carries one of the listed options.   *)
(***************************************************************************)
SetApplication(v) ==
    /\ page = "config"
    /\ v # application
    /\ application' = v
    /\ lastAction' = "SetApplication"
    /\ UNCHANGED <<page, operation, domain, department, generatedPrompt,
                   formError, apiError, isLoading, rules, inflight,
                   lastOutcome, resultFrom>>

SetOperation(v) ==
    /\ page = "config"
    /\ v # operation
    /\ operation' = v
    /\ lastAction' = "SetOperation"
    /\ UNCHANGED <<page, application, domain, department, generatedPrompt,
                   formError, apiError, isLoading, rules, inflight,
                   lastOutcome, resultFrom>>

SetDomain(v) ==
    /\ page = "config"
    /\ v # domain
    /\ domain' = v
    /\ lastAction' = "SetDomain"
    /\ UNCHANGED <<page, application, operation, department, generatedPrompt,
                   formError, apiError, isLoading, rules, inflight,
                   lastOutcome, resultFrom>>

SetDepartment(v) ==
    /\ page = "config"
    /\ v # department
    /\ department' = v
    /\ lastAction' = "SetDepartment"
    /\ UNCHANGED <<page, application, operation, domain, generatedPrompt,
                   formError, apiError, isLoading, rules, inflight,
                   lastOutcome, resultFrom>>

(***************************************************************************)
(* handleCreatePrompt.  A request still pending when a prompt is composed  *)
(* belongs to an earlier Reviewing session from then on.                   *)
(***************************************************************************)
Supersede(reqs) ==
    [i \in 1..Len(reqs) |-> [reqs[i] EXCEPT !.superseded = TRUE]]

\* handleCreatePrompt with the early return of the validation branch missing
HandleCreatePrompt_NoReturn ==
    /\ lastAction' = "CreatePrompt"
    /\ formError' = NULL
    /\ generatedPrompt' =
           ComposePrompt(application, operation, domain, department)
    /\ page' = "results"
    /\ rules' = <<>>
    /\ apiError' = NULL
    /\ inflight' = Supersede(inflight)
    /\ resultFrom' = "none"
    /\ UNCHANGED <<application, operation, domain, department, isLoading,
                   lastOutcome>>

\* handleCreatePrompt with setRules([]) missing
HandleCreatePrompt_KeepsRules ==
    /\ lastAction' = "CreatePrompt"
    /\ IF isFormIncomplete
       THEN /\ formError' = FormErrorMessage
            /\ UNCHANGED <<page, generatedPrompt, rules, apiError, inflight,
                           resultFrom>>
       ELSE /\ formError' = NULL
            /\ generatedPrompt' =
                   ComposePrompt(application, operation, domain, department)
            /\ page' = "results"
            /\ apiError' = NULL
            /\ inflight' = Supersede(inflight)
            /\ UNCHANGED <<rules, resultFrom>>
    /\ UNCHANGED <<application, operation, domain, department, isLoading,
                   lastOutcome>>

HandleCreatePrompt ==
    /\ lastAction' = "CreatePrompt"
    /\ IF isFormIncomplete
       THEN /\ formError' = FormErrorMessage
            /\ UNCHANGED <<page, generatedPrompt, rules, apiError, inflight,
                           resultFrom>>
       ELSE /\ formError' = NULL
            /\ generatedPrompt' =
                   ComposePrompt(application, operation, domain, department)
            /\ page' = "results"
            /\ rules' = <<>>
            /\ apiError' = NULL
            /\ inflight' = Supersede(inflight)
            /\ resultFrom' = "none"
    /\ UNCHANGED <<application, operation, domain, department, isLoading,
                   lastOutcome>>

\* <Button onClick={handleCreatePrompt} disabled={isFormIncomplete}>
CreatePromptDisabled == isFormIncomplete

ClickCreatePrompt ==
    /\ page = "config"
    /\ ~CreatePromptDisabled
    /\ HandleCreatePrompt

\* the handler called with the button's disabled attribute bypassed
InvokeCreatePrompt ==
    /\ page = "config"
    /\ HandleCreatePrompt

(***************************************************************************)
(* Results page.                                                           *)
(***************************************************************************)
EditedPrompts == {<<>>, <<"Refined prompt">>}

\* the textarea's onChange
SetGeneratedPrompt(text) ==
    /\ page = "results"
    /\ text # generatedPrompt
    /\ generatedPrompt' = text
    /\ lastAction' = "SetGeneratedPrompt"
    /\ UNCHANGED <<page, application, operation, domain, department,
                   formError, apiError, isLoading, rules, inflight,
                   lastOutcome, resultFrom>>

\* handleBack that also resets the form
HandleBack_ResetsSelection ==
    /\ page' = "config"
    /\ formError' = NULL
    /\ lastAction' = "Back"
    /\ application' = ""
    /\ operation' = ""
    /\ domain' = ""
    /\ department' = ""
    /\ UNCHANGED <<generatedPrompt, apiError, isLoading, rules, inflight,
                   lastOutcome, resultFrom>>

HandleBack ==
    /\ page' = "config"
    /\ formError' = NULL
    /\ lastAction' = "Back"
    /\ UNCHANGED <<application, operation, domain, department,
                   generatedPrompt, apiError, isLoading, rules, inflight,
                   lastOutcome, resultFrom>>

ClickBack ==
    /\ page = "results"
    /\ HandleBack

\* handleGenerateRules with setApiError(null) missing
HandleGenerateRules_KeepsError ==
    /\ isLoading' = TRUE
    /\ rules' = <<>>
    /\ inflight' = Append(inflight,
                          [contents |-> RequestContents(generatedPrompt),
                           superseded |-> FALSE])
    /\ lastAction' = "GenerateRules"
    /\ UNCHANGED <<page, application, operation, domain, department,
                   generatedPrompt, formError, apiError, lastOutcome,
                   resultFrom>>

\* handleGenerateRules with setRules([]) missing
HandleGenerateRules_KeepsRules ==
    /\ isLoading' = TRUE
    /\ apiError' = NULL
    /\ inflight' = Append(inflight,
                          [contents |-> RequestContents(generatedPrompt),
                           superseded |-> FALSE])
    /\ lastAction' = "GenerateRules"
    /\ UNCHANGED <<page, application, operation, domain, department,
                   generatedPrompt, formError, rules, lastOutcome,
                   resultFrom>>

\* handleGenerateRules up to the await: the request is issued
HandleGenerateRules ==
    /\ isLoading' = TRUE
    /\ apiError' = NULL
    /\ rules' = <<>>
    /\ inflight' = Append(inflight,
                          [contents |-> RequestContents(generatedPrompt),
                           superseded |-> FALSE])
    /\ lastAction' = "GenerateRules"
    /\ resultFrom' = "none"
    /\ UNCHANGED <<page, application, operation, domain, department,
                   generatedPrompt, formError, lastOutcome>>

\* handleGenerateRules when the client throws before any request is issued:
\* try, catch and finally all run within the click
HandleGenerateRulesThrows ==
    /\ isLoading' = FALSE
    /\ apiError' = ApiErrorMessage
    /\ rules' = <<>>
    /\ lastAction' = "GenerateRulesThrew"
    /\ lastOutcome' = [kind |-> "exception", text |-> ""]
    /\ resultFrom' = "current"
    /\ UNCHANGED <<page, application, operation, domain, department,
                   generatedPrompt, formError, inflight>>

\* the button's disabled attribute without the isLoading test
GenerateRulesDisabled_IgnoresLoading == generatedPrompt = <<>>

\* <Button onClick={handleGenerateRules} disabled={isLoading || !generatedPrompt}>
GenerateRulesDisabled == isLoading \/ generatedPrompt = <<>>

ClickGenerateRules ==
    /\ page = "results"
    /\ ~GenerateRulesDisabled
    /\ HandleGenerateRules

ClickGenerateRulesThrows ==
    /\ page = "results"
    /\ ~GenerateRulesDisabled
    /\ HandleGenerateRulesThrows

RemoveAt(s, i) == SubSeq(s, 1, i - 1) \o SubSeq(s, i + 1, Len(s))

\* handleGenerateRules after the await: pending call i settles with s
Settle(i, s) ==
    /\ i \in 1..Len(inflight)
    /\ IF s.kind = "resolved" /\ ~JSONParse(s.text).threw
       THEN /\ rules' = JSONParse(s.text).value
            /\ UNCHANGED apiError
       ELSE /\ apiError' = ApiErrorMessage
            /\ UNCHANGED rules
    /\ isLoading' = FALSE
    /\ inflight' = RemoveAt(inflight, i)
    /\ lastAction' = "Settle"
    /\ lastOutcome' = s
    /\ resultFrom' = IF inflight[i].superseded THEN "earlier" ELSE "current"
    /\ UNCHANGED <<page, application, operation, domain, department,
                   generatedPrompt, formError>>

\* any pending call may settle, in any way the boundary allows
SettleAny == \E i \in 1..Len(inflight) : \E s \in Settlements : Settle(i, s)

Next ==
    \/ \E v \in APPLICATIONS : SetApplication(v)
    \/ \E v \in OPERATIONS : SetOperation(v)
    \/ \E v \in DOMAINS : SetDomain(v)
    \/ \E v \in DEPARTMENTS : SetDepartment(v)
    \/ ClickCreatePrompt
    \/ \E text \in EditedPrompts : SetGeneratedPrompt(text)
    \/ ClickBack
    \/ ClickGenerateRules
    \/ ClickGenerateRulesThrows
    \/ SettleAny

Spec == Init /\ [][Next]_vars

\* the handlers as entry points: handleCreatePrompt may also be called while
\* its button is disabled
NextHandlers == Next \/ InvokeCreatePrompt

SpecHandlers == Init /\ [][NextHandlers]_vars

(***************************************************************************)
(* Properties.                                                             *)
(***************************************************************************)

\* C1: when handleCreatePrompt runs with at least one selection empty it
\* sets the validation error and changes nothing else: the page stays
\* 'config' and generatedPrompt, rules, apiError and isLoading keep their
\* values.
C1_IncompleteComposeOnlySetsFormError ==
    [][ (isFormIncomplete /\ lastAction' = "CreatePrompt")
        => /\ formError' = FormErrorMessage
           /\ page = "config" /\ page' = "config"
           /\ UNCHANGED <<generatedPrompt, rules, apiError, isLoading>>
           /\ UNCHANGED selection ]_vars

C1_Witness ==
    /\ lastAction = "CreatePrompt"
    /\ isFormIncomplete
    /\ application # "" /\ operation # "" /\ domain # ""
    /\ formError = FormErrorMessage
    /\ page = "config"

\* C2: at most one generation request is in flight in every reachable
\* state, and while one is pending the fetch button is disabled (isLoading).
C2_AtMostOneInFlight ==
    /\ Len(inflight) <= 1
    /\ inflight # <<>> => isLoading

C2_Witness ==
    /\ Len(inflight) = 1
    /\ inflight[1].superseded
    /\ page = "results"
    /\ generatedPrompt = <<"Refined prompt">>

\* the failing outcomes of the generation call: a rejection, an exception,
\* text that is not JSON, or JSON that violates the declared schema
FetchFailed(o) ==
    \/ o.kind \in {"rejected", "exception"}
    \/ /\ o.kind = "resolved"
       /\ \/ JSONParse(o.text).threw
          \/ ~ConformsToSchema(JSONParse(o.text).value)

\* C3: once a fetch has completed with a failing outcome the Rule list is
\* empty, the fetch error message is set and isLoading is false.
C3_FailedFetchLeavesError ==
    (lastAction \in {"Settle", "GenerateRulesThrew"} /\ FetchFailed(lastOutcome))
    => /\ rules = <<>>
       /\ apiError = ApiErrorMessage
       /\ isLoading = FALSE

\* C4: on a successful fetch the Rule list goes in one step from empty to
\* exactly the parsed response sequence, and afterwards the fetch error is
\* null and isLoading is false.
C4_SuccessReplacesRulesAtomically ==
    [][ ( /\ lastAction' = "Settle"
          /\ lastOutcome'.kind = "resolved"
          /\ ~JSONParse(lastOutcome'.text).threw )
        => /\ rules = <<>>
           /\ rules' = JSONParse(lastOutcome'.text).value
           /\ apiError' = NULL
           /\ isLoading' = FALSE ]_vars

C4_Witness ==
    /\ lastAction = "Settle"
    /\ lastOutcome = [kind |-> "resolved", text |-> TextTwoRulesSwapped]
    /\ rules = <<RuleR2, RuleR1>>
    /\ apiError = NULL
    /\ isLoading = FALSE

\* C5: composing with a complete selection moves the page from 'config' to
\* 'results', stores the composed text as generatedPrompt and leaves the
\* Rule list empty and the fetch error null, whatever was left over.
C5_ComposeEntersResults ==
    [][ (~isFormIncomplete /\ lastAction' = "CreatePrompt")
        => /\ page = "config" /\ page' = "results"
           /\ generatedPrompt' # <<>>
           /\ generatedPrompt' =
                  ComposePrompt(application, operation, domain, department)
           /\ rules' = <<>>
           /\ apiError' = NULL ]_vars

\* the last fetch left rules behind and nothing but the compose cleared them
C5_Witness ==
    /\ lastAction = "CreatePrompt"
    /\ page = "results"
    /\ inflight = <<>>
    /\ lastOutcome = [kind |-> "resolved", text |-> TextOneRule]
    /\ rules = <<>>
    /\ apiError = NULL

\* C6: the prompt just composed from a complete selection is non-empty
\* (every operation has a template), contains the domain, department and
\* application values, contains the dataset-relation clause for
\* Business_Rules, Technical_Rules and unrecognized operations (which are
\* themselves named in it), and does not contain it for Estimations and
\* Schema.
C6_PromptContents ==
    (lastAction = "CreatePrompt" /\ ~isFormIncomplete)
    => /\ generatedPrompt # <<>>
       /\ Contains(generatedPrompt, <<domain>>)
       /\ Contains(generatedPrompt, <<department>>)
       /\ Contains(generatedPrompt, <<application>>)
       /\ operation \in {"Estimations", "Schema"}
             => ~Contains(generatedPrompt, datasetContext)
       /\ operation \notin {"Estimations", "Schema"}
             => Contains(generatedPrompt, datasetContext)
       /\ operation \notin {"Business_Rules", "Technical_Rules",
                            "Estimations", "Schema"}
             => Contains(generatedPrompt, <<operation>>)

C6_Witness ==
    /\ lastAction = "CreatePrompt"
    /\ page = "results"
    /\ operation = "Data_Profiling"
    /\ application = "Billing"
    /\ domain = "Finance"

\* C7: Back sets the page to 'config' whatever the fetch sub-status is,
\* clears the validation error and leaves the four selections unchanged.
C7_BackKeepsSelection ==
    [][ lastAction' = "Back"
        => /\ page = "results" /\ page' = "config"
           /\ formError' = NULL
           /\ UNCHANGED selection ]_vars

C7_Witness ==
    /\ lastAction = "Back"
    /\ page = "config"
    /\ isLoading
    /\ ~isFormIncomplete

\* C8 as claimed: the Rule list is empty initially, after Back, and when a
\* fetch starts.
C8_RulesEmptyAfterBack ==
    lastAction \in {"init", "Back", "GenerateRules"} => rules = <<>>

\* C8 amended: the Rule list is empty initially and is cleared when a fetch
\* starts; Back leaves it as it is.
C8_RulesClearedByFetchNotBack ==
    /\ rules = <<>>
    /\ [][ /\ lastAction' = "GenerateRules" => rules' = <<>>
           /\ lastAction' = "Back" => rules' = rules ]_vars

C8_Witness ==
    /\ lastAction = "Back"
    /\ page = "config"
    /\ rules # <<>>

\* C9: whenever the page is 'config', isLoading is false.
C9_NoLoadingWhileConfiguring ==
    page = "config" => isLoading = FALSE

\* C10: whenever the Rule list is non-empty or the fetch error is set, it
\* was produced by a fetch started in the current Reviewing session.
C10_ResultsBelongToSession ==
    (rules # <<>> \/ apiError # NULL) => resultFrom = "current"

====
